---------------------------- MODULE Spec2Model ----------------------------
(***************************************************************************)
(* A model of the EndeeSync RAG system: the two chunkers, the embedding    *)
(* functions, the retrieval and generation pipeline with its LLM fallback  *)
(* chain, the index initialisation, and the requests that write to the     *)
(* vector store (document handlers, CLI ingestion, clear-all).             *)
(*                                                                         *)
(* Texts are sequences of one-character strings.  Each subsystem has its   *)
(* own specification (SpecChunk, SpecSent, ...); a specification leaves    *)
(* the variables of the other subsystems at their idle values.             *)
(***************************************************************************)
EXTENDS Integers, Sequences, FiniteSets, TLC

VARIABLES
    \* src/ingest.py chunk_text: arguments, locals and position
    text, chunk_size, overlap, start, chunks, windows, ckpc,
    \* src/api_handlers.py chunk_text: arguments, result and position
    doc_text, max_chunk_size, api_chunks, sentpc,
    \* retrieval and generation: the configuration, the model singleton, and
    \* for the last operation its arguments (op), what the outside world
    \* answered (env), the calls it made in order (calls), what retrieval
    \* gave it (context_results) and what it returned (result)
    USE_OPENAI, USE_GROQ, embedding_model, op, env, calls, context_results, result,
    \* the vector store: the id of each existing index by name, the number of
    \* indexes ever created, and the vector records of index rag_documents
    store_indexes, indexes_created, records,
    \* src/store.py: the client singleton and, for each concurrent call of
    \* initialize_endee_index, its position and locals
    endee_client, clients_made, ixpc, existing_indexes, index, create_error,
    \* the document handlers of src/api_handlers.py: the next fresh
    \* document id, the number of requests made, the last request and a
    \* summary of the one before it
    next_doc, requests, st_op, st_prev,
    \* src/embed.py: the number of embedding models constructed so far and,
    \* for the last call, its arguments and outcome (emb_op), what the model
    \* library answered (emb_env) and the calls it made in order (emb_calls)
    models_made, emb_op, emb_env, emb_calls,
    \* concurrent calls of get_embedding_model: the position of each call, the
    \* object the singleton holds (0 for None, n for the n-th constructed)
    \* and the object each call returned
    empc, model_obj, em_returned,
    \* process_documents of src/ingest.py: the files under the data directory
    \* (path -> content), the chunk objects returned and the position
    pd_files, all_chunks, pdpc

ckvars == <<text, chunk_size, overlap, start, chunks, windows, ckpc>>
sentvars == <<doc_text, max_chunk_size, api_chunks, sentpc>>

ragvars == <<USE_OPENAI, USE_GROQ, embedding_model, op, env, calls, context_results, result>>

storevars == <<store_indexes, indexes_created, records>>
ixvars == <<endee_client, clients_made, ixpc, existing_indexes, index, create_error>>

docvars == <<next_doc, requests, st_op, st_prev>>
embvars == <<models_made, emb_op, emb_env, emb_calls>>
racevars == <<empc, model_obj, em_returned>>
pdvars == <<pd_files, all_chunks, pdpc>>
\* the variables of retrieval and generation but the model singleton
ragrest == <<USE_OPENAI, USE_GROQ, op, env, calls, context_results, result>>

vars == <<ckvars, sentvars, ragvars, storevars, ixvars, docvars, embvars, racevars, pdvars>>

\* what the actions of one subsystem leave alone
NotChunk == <<sentvars, ragvars, storevars, ixvars, docvars, embvars, racevars, pdvars>>
NotSent == <<ckvars, ragvars, storevars, ixvars, docvars, embvars, racevars, pdvars>>
NotRag == <<ckvars, sentvars, storevars, ixvars, docvars, embvars, racevars, pdvars>>
NotIndex == <<ckvars, sentvars, ragvars, docvars, embvars, racevars, pdvars>>
NotDoc == <<ckvars, sentvars, ragrest, ixvars, embvars, racevars, pdvars>>
NotEmbed == <<ckvars, sentvars, ragrest, storevars, ixvars, docvars, racevars, pdvars>>
NotRace == <<ckvars, sentvars, ragrest, storevars, ixvars, docvars,
             emb_op, emb_env, emb_calls, pdvars>>
NotProcess == <<ckvars, sentvars, ragvars, storevars, ixvars, docvars, embvars, racevars>>

-----------------------------------------------------------------------------
(* Bounds of the model *)

\* longest text over the full alphabet Chars
MaxLen == 5
\* longest text over the small alphabet WsChars
MaxLenWs == 7
\* largest chunk_size
MaxChunk == 6
\* most loop iterations of chunk_text that are followed
MaxIter == 8
\* largest top_k of a query, and so the most hits the store returns
MaxTopK == 2
\* similarities are the levels 0..MaxSim
MaxSim == 2
\* number of concurrent callers of initialize_endee_index
NumProcs == 3
\* number of documents ingested
MaxDocs == 2
\* most sentences of an ingested document
MaxSentences == 3
\* most texts or chunks handed to one embed_texts or embed_chunks call
MaxTexts == 2
\* most chunks handed to one store_embeddings call
MaxCliChunks == 3
\* number of requests to the document handlers that are followed
MaxRequests == 2
\* largest limit of a list_documents request
MaxLimit == 2
\* longest content of a file in the data directory
MaxContentLen == 3

-----------------------------------------------------------------------------
(* Python string primitives *)

Chars == {"a", " ", ".", "\n"}
WsChars == {"a", " "}

\* str.isspace for the characters of the model
IsSpace(c) == c \in {" ", "\n"}

SetMin(S) == CHOOSE x \in S : \A y \in S : x <= y
SetMax(S) == CHOOSE x \in S : \A y \in S : x >= y

\* all texts over alphabet S of length at most n
Texts(S, n) == UNION {[1..k -> S] : k \in 0..n}

\* how Python maps a slice bound i onto a sequence of length n
PyIdx(i, n) ==
    IF i < 0 THEN (IF i + n < 0 THEN 0 ELSE i + n)
    ELSE (IF i > n THEN n ELSE i)

\* s[lo:hi]
Slice(s, lo, hi) ==
    LET a == PyIdx(lo, Len(s))
        b == PyIdx(hi, Len(s))
    IN  IF b <= a THEN <<>> ELSE SubSeq(s, a + 1, b)

\* the 0-based positions of s that s[lo:hi] takes
SlicePositions(s, lo, hi) ==
    LET a == PyIdx(lo, Len(s))
        b == PyIdx(hi, Len(s))
    IN  {i \in 0..(Len(s) - 1) : a <= i /\ i < b}

\* s.rfind(sub, lo, hi): the highest 0-based index of sub inside s[lo:hi], or -1
RFind(s, sub, lo, hi) ==
    LET a == PyIdx(lo, Len(s))
        b == PyIdx(hi, Len(s))
        found == {i \in a..(b - Len(sub)) : SubSeq(s, i + 1, i + Len(sub)) = sub}
    IN  IF found = {} THEN -1 ELSE SetMax(found)

\* s.strip()
Strip(s) ==
    LET keep == {i \in 1..Len(s) : ~IsSpace(s[i])}
    IN  IF keep = {} THEN <<>> ELSE SubSeq(s, SetMin(keep), SetMax(keep))

-----------------------------------------------------------------------------
(* src/ingest.py: chunk_text(text, chunk_size, overlap) *)

\* the boundary strings of the for loop, in its order
BoundaryChars == << <<".", " ">>, <<"!", " ">>, <<"?", " ">>, <<"\n", "\n">> >>

\* the first boundary string of the list that text.rfind finds in [lo, hi), or 0
FirstBoundary(t, lo, hi) ==
    LET found == {k \in 1..Len(BoundaryChars) : RFind(t, BoundaryChars[k], lo, hi) # -1}
    IN  IF found = {} THEN 0 ELSE SetMin(found)

\* a window end that ignores the window's end when it looks for a boundary
WindowEndUnbounded(t, s, size) ==
    LET end == s + size
        k == FirstBoundary(t, s + (size \div 2), Len(t))
    IN  IF end < Len(t) /\ k # 0
        THEN RFind(t, BoundaryChars[k], s + (size \div 2), Len(t)) + Len(BoundaryChars[k])
        ELSE end

\* the value of end when the chunk is cut
WindowEnd(t, s, size) ==
    LET end == s + size
        k == FirstBoundary(t, s + (size \div 2), end)
        space_idx == RFind(t, <<" ">>, s, end)
    IN  IF end < Len(t)
        THEN IF k # 0
             THEN RFind(t, BoundaryChars[k], s + (size \div 2), end) + Len(BoundaryChars[k])
             ELSE IF space_idx # -1 /\ space_idx > s THEN space_idx ELSE end
        ELSE end

\* the start of the next window: end - overlap, or end when the guard fires
NextStart(end, ov, cs) ==
    LET s == end - ov
        guard == IF cs # <<>> THEN s <= Len(Slice(cs[Len(cs)], 0, ov)) ELSE FALSE
    IN  IF guard THEN end ELSE s

\* the chunk list after the window [s, end) was cut
AppendChunk(cs, t, s, end) ==
    LET chunk == Strip(Slice(t, s, end))
    IN  IF chunk # <<>> THEN Append(cs, chunk) ELSE cs

\* the call: an empty text returns [] at once
ChunkCall ==
    /\ ckpc = "call"
    /\ IF text = <<>> THEN ckpc' = "done" ELSE ckpc' = "loop"
    /\ start' = 0
    /\ chunks' = <<>>
    /\ windows' = <<>>
    /\ UNCHANGED <<text, chunk_size, overlap>>
    /\ UNCHANGED NotChunk

\* one iteration of the while loop
ChunkStep ==
    /\ ckpc = "loop"
    /\ start < Len(text)
    /\ Len(windows) < MaxIter
    /\ LET end == WindowEnd(text, start, chunk_size)
           cs == AppendChunk(chunks, text, start, end)
       IN  /\ chunks' = cs
           /\ windows' = Append(windows, <<start, end>>)
           /\ start' = NextStart(end, overlap, cs)
    /\ UNCHANGED <<text, chunk_size, overlap, ckpc>>
    /\ UNCHANGED NotChunk

\* the loop condition fails and the chunk list is returned
ChunkReturn ==
    /\ ckpc = "loop"
    /\ start >= Len(text)
    /\ ckpc' = "done"
    /\ UNCHANGED <<text, chunk_size, overlap, start, chunks, windows>>
    /\ UNCHANGED NotChunk

Procs == 1..NumProcs

\* the store holds no index and no record
StoreEmpty ==
    /\ store_indexes = <<>> /\ indexes_created = 0 /\ records = {}

\* no client yet, and no call of initialize_endee_index under way
IndexIdle ==
    /\ endee_client = 0 /\ clients_made = 0
    /\ ixpc = [p \in Procs |-> "idle"]
    /\ existing_indexes = [p \in Procs |-> {}]
    /\ index = [p \in Procs |-> 0]
    /\ create_error = [p \in Procs |-> "none"]

\* a request to the document handlers: its name, document, outcome and
\* deletion path, the sizes of the upsert requests it sent in order, the
\* records its fallback query returned, those it gave to delete_vector, and
\* for list_documents its limit and the response
NoDocOp ==
    [name |-> "none", doc |-> 0, raised |-> FALSE, path |-> "none", chunk_count |-> 0,
     upserts |-> <<>>, hits |-> {}, deleted |-> {}, delete_calls |-> 0,
     limit |-> 0, documents |-> {}, total |-> 0]

\* what is kept of a request once the next one is made
Summary(o) ==
    [name |-> o.name, doc |-> o.doc, raised |-> o.raised, chunk_count |-> o.chunk_count]

\* no document ingested yet
DocIdle ==
    /\ next_doc = 1 /\ requests = 0 /\ st_op = NoDocOp /\ st_prev = Summary(NoDocOp)

NoEmbOp ==
    [name |-> "none", texts |-> <<>>, query |-> <<>>, raised |-> FALSE,
     value |-> <<>>, model_before |-> "None", made_before |-> 0]

NoEmbEnv == [construct_ok |-> TRUE, encode_ok |-> TRUE]

\* no call of src/embed.py made yet
EmbedIdle ==
    /\ models_made = 0 /\ emb_op = NoEmbOp /\ emb_env = NoEmbEnv /\ emb_calls = <<>>

\* no concurrent call of get_embedding_model under way
RaceIdle ==
    /\ empc = [p \in Procs |-> "idle"]
    /\ model_obj = 0
    /\ em_returned = [p \in Procs |-> 0]

\* process_documents not called, on an empty data directory
ProcessIdle ==
    /\ pd_files = <<>> /\ all_chunks = <<>> /\ pdpc = "idle"

NoOp == [name |-> "none", query |-> <<>>, top_k |-> 0, threshold |-> 0, filters |-> "None"]
NoEnv == [raw_results |-> <<>>, query_ok |-> TRUE,
          openai_ok |-> TRUE, groq_ok |-> TRUE, local_ok |-> TRUE]

RagIdle ==
    /\ USE_OPENAI = FALSE /\ USE_GROQ = FALSE /\ embedding_model = "None"
    /\ op = NoOp /\ env = NoEnv /\ calls = <<>> /\ context_results = <<>>
    /\ result = [raised |-> FALSE, value |-> <<>>]

SentIdle ==
    /\ doc_text = <<>> /\ max_chunk_size = 1 /\ api_chunks = <<>> /\ sentpc = "idle"

ChunkIdle ==
    /\ text = <<>> /\ chunk_size = 1 /\ overlap = 0 /\ start = 0
    /\ chunks = <<>> /\ windows = <<>> /\ ckpc = "idle"

InitChunk ==
    /\ text \in Texts(Chars, MaxLen) \cup Texts(WsChars, MaxLenWs)
    /\ chunk_size \in 1..MaxChunk
    /\ overlap \in 0..(chunk_size - 1)
    /\ start = 0
    /\ chunks = <<>>
    /\ windows = <<>>
    /\ ckpc = "call"
    /\ SentIdle
    /\ RagIdle
    /\ StoreEmpty
    /\ IndexIdle
    /\ DocIdle
    /\ EmbedIdle
    /\ RaceIdle
    /\ ProcessIdle

NextChunk == ChunkCall \/ ChunkStep \/ ChunkReturn

SpecChunk == InitChunk /\ [][NextChunk]_vars

-----------------------------------------------------------------------------
(* Claims about src/ingest.py chunk_text, checked under SpecChunk *)

\* C1: a text shorter than chunk_size comes back as exactly one chunk, the
\* stripped text.
C1_ShortTextOneChunk ==
    (ckpc = "done" /\ 0 < Len(text) /\ Len(text) < chunk_size)
        => chunks = <<Strip(text)>>

\* C3: every chunk cut so far, and so every chunk returned, is at most
\* chunk_size characters long.
C3_ChunkWithinSize ==
    \A i \in 1..Len(chunks) : Len(chunks[i]) <= chunk_size

\* C3's case: a returned list of several chunks, one cut at a sentence or word
\* boundary before the window's end and one of the full chunk_size.
C3_Witness ==
    /\ ckpc = "done"
    /\ Len(chunks) >= 2
    /\ \E i \in 1..Len(windows) :
          /\ windows[i][1] + chunk_size < Len(text)
          /\ windows[i][2] < windows[i][1] + chunk_size
    /\ \E i \in 1..Len(chunks) : Len(chunks[i]) = chunk_size

\* the 0-based positions of the text that the cut windows took
Covered ==
    UNION {SlicePositions(text, windows[i][1], windows[i][2]) : i \in 1..Len(windows)}

\* C4: the windows start at 0, each starts at or before the end of the one
\* before, the last reaches the end of the text, and the returned chunks lose
\* nothing of the text but whitespace.
C4_WindowsReconstruct ==
    (ckpc = "done" /\ text # <<>>) =>
        /\ windows[1][1] = 0
        /\ \A i \in 1..(Len(windows) - 1) : windows[i + 1][1] <= windows[i][2]
        /\ windows[Len(windows)][2] >= Len(text)
        /\ \A p \in 0..(Len(text) - 1) : ~IsSpace(text[p + 1]) => p \in Covered

\* C22: every iteration of chunk_text's loop starts its window strictly after
\* the start of the one before, so the loop runs at most len(text) times.
C22_StartStrictlyIncreases ==
    /\ \A i \in 1..(Len(windows) - 1) : windows[i][1] < windows[i + 1][1]
    /\ Len(windows) <= Len(text)

\* the sentence boundaries: ". ", "! ", "? " and the paragraph break
SentenceBoundaries == {<<".", " ">>, <<"!", " ">>, <<"?", " ">>, <<"\n", "\n">>}

\* the positions right after a sentence boundary that lies inside [lo, hi)
BoundaryEnds(t, lo, hi) ==
    {e \in (lo + 2)..hi : e <= Len(t) /\ SubSeq(t, e - 1, e) \in SentenceBoundaries}

\* the positions of the spaces inside [lo, hi) at which a chunk can end: those
\* after lo
SpacesIn(t, lo, hi) == {p \in (lo + 1)..(hi - 1) : p < Len(t) /\ t[p + 1] = " "}

\* C23: a window [start, start + chunk_size) that is not the last is cut right
\* after its sentence boundary nearest to the window end; without a sentence
\* boundary, at its last space; without a space, at start + chunk_size.
C23_CutAtNearestBoundary ==
    \A i \in 1..Len(windows) :
        LET s == windows[i][1]
            end == windows[i][2]
            hi == s + chunk_size
        IN  (s >= 0 /\ hi < Len(text)) =>
                end = IF BoundaryEnds(text, s, hi) # {}
                      THEN SetMax(BoundaryEnds(text, s, hi))
                      ELSE IF SpacesIn(text, s, hi) # {}
                      THEN SetMax(SpacesIn(text, s, hi))
                      ELSE hi

-----------------------------------------------------------------------------
(* src/api_handlers.py: chunk_text(text, max_chunk_size), the sentence      *)
(* chunker of the ingestion API path                                        *)

\* the text of the spec's scenario, "A. B. C."
ScenarioText == <<"A", ".", " ", "B", ".", " ", "C", ".">>

\* text.replace('\n', ' ')
ReplaceNewlines(s) == [i \in 1..Len(s) |-> IF s[i] = "\n" THEN " " ELSE s[i]]

\* s.find(sub): the lowest 0-based index of sub in s, or -1
Find(s, sub) ==
    LET found == {i \in 0..(Len(s) - Len(sub)) : SubSeq(s, i + 1, i + Len(sub)) = sub}
    IN  IF found = {} THEN -1 ELSE SetMin(found)

\* s.split('. ')
RECURSIVE SplitSentences(_)
SplitSentences(s) ==
    LET i == Find(s, <<".", " ">>)
    IN  IF i = -1 THEN <<s>>
        ELSE <<SubSeq(s, 1, i)>> \o SplitSentences(SubSeq(s, i + 3, Len(s)))

\* the for loop over the sentences: <<chunks, current_chunk>> at its end
RECURSIVE AccumulateSentences(_, _, _, _)
AccumulateSentences(sentences, cs, current_chunk, max) ==
    IF sentences = <<>> THEN <<cs, current_chunk>>
    ELSE LET sentence == Strip(Head(sentences))
             rest == Tail(sentences)
         IN  IF sentence = <<>>
             THEN AccumulateSentences(rest, cs, current_chunk, max)
             ELSE IF Len(current_chunk) + Len(sentence) < max
                  THEN AccumulateSentences(rest, cs,
                           current_chunk \o sentence \o <<".", " ">>, max)
                  ELSE AccumulateSentences(rest,
                           IF current_chunk # <<>>
                           THEN Append(cs, Strip(current_chunk)) ELSE cs,
                           sentence \o <<".", " ">>, max)

\* chunk_text(t, max)
ApiChunkText(t, max) ==
    LET r == AccumulateSentences(SplitSentences(ReplaceNewlines(t)), <<>>, <<>>, max)
        cs == IF r[2] # <<>> THEN Append(r[1], Strip(r[2])) ELSE r[1]
    IN  IF cs # <<>> THEN cs ELSE <<t>>

\* one call of the chunker
ApiChunkCall ==
    /\ sentpc = "call"
    /\ api_chunks' = ApiChunkText(doc_text, max_chunk_size)
    /\ sentpc' = "done"
    /\ UNCHANGED <<doc_text, max_chunk_size>>
    /\ UNCHANGED NotSent

InitSent ==
    /\ doc_text \in Texts(Chars, MaxLen) \cup {ScenarioText}
    /\ max_chunk_size \in 1..MaxChunk
    /\ api_chunks = <<>>
    /\ sentpc = "call"
    /\ ChunkIdle
    /\ RagIdle
    /\ StoreEmpty
    /\ IndexIdle
    /\ DocIdle
    /\ EmbedIdle
    /\ RaceIdle
    /\ ProcessIdle

NextSent == ApiChunkCall

SpecSent == InitSent /\ [][NextSent]_vars

-----------------------------------------------------------------------------
(* Claims about src/api_handlers.py chunk_text, checked under SpecSent *)

\* C2: chunk_text("A. B. C.", max_chunk_size=5) returns ["A.", "B.", "C."],
\* one unchanged sentence per chunk.
C2_ScenarioChunks ==
    (sentpc = "done" /\ doc_text = ScenarioText /\ max_chunk_size = 5)
        => api_chunks = << <<"A", ".">>, <<"B", ".">>, <<"C", ".">> >>

\* C20: when the sentence chunker returns more than one chunk, every chunk is
\* at most max_chunk_size long.
C20_SeveralChunksWithinSize ==
    (sentpc = "done" /\ Len(api_chunks) > 1)
        => \A i \in 1..Len(api_chunks) : Len(api_chunks[i]) <= max_chunk_size

-----------------------------------------------------------------------------
(* src/embed.py, src/retrieve.py, src/rag.py and the search handler of     *)
(* src/api_handlers.py.  Each operation is one action; it records the      *)
(* calls it makes to the embedding model, the vector store and the LLM      *)
(* providers, in order.                                                     *)

Queries == {<<>>, <<" ">>, <<"q">>}

\* a filters argument: None, an empty dict, or a dict with a condition
FilterArgs == {"None", "empty", "tags"}

\* Python's truth value of a filters argument
Truthy(filters) == filters = "tags"

Sims == 0..MaxSim

\* the metadata of the two stored records: record 1 carries every display
\* field, record 2 none of them
MetaOf(i) ==
    IF i = 1 THEN [text |-> "t", source |-> "s", chunk_index |-> 1]
    ELSE [tags |-> "g"]

\* the raw hits of the store
RawHits ==
    {[id |-> i, similarity |-> sim, distance |-> MaxSim - sim, meta |-> MetaOf(i)] :
        i \in 1..2, sim \in Sims}

\* what index.query may return for top_k = k: at most k hits, best first
RawResults(k) ==
    {raw \in UNION {[1..n -> RawHits] : n \in 0..k} :
        \A i \in 1..(Len(raw) - 1) :
            /\ raw[i].similarity >= raw[i + 1].similarity
            /\ raw[i].id # raw[i + 1].id}

\* the calls that reach the vector store, and those that reach the model
StoreCalls == {"initialize_endee_index", "index.query"}
ModelCalls == {"SentenceTransformer", "model.encode"}
LlmCalls == {"call_openai_llm", "call_groq_llm", "call_local_llm"}

Count(cs, c) == Cardinality({i \in 1..Len(cs) : cs[i] = c})

\* d.get(key, default) of a dict modelled as a record
Get(d, key, default) == IF key \in DOMAIN d THEN d[key] ELSE default

\* embed_query's test that does not strip the query
IsBlankNoStrip(query) == query = <<>>

\* embed_query's test `not query or not query.strip()`
IsBlank(query) == query = <<>> \/ Strip(query) = <<>>

\* a get_embedding_model that constructs the model on every call
GetEmbeddingModelEveryCall(model) == <<"SentenceTransformer">>

\* get_embedding_model: the calls it makes when the singleton is in state model
GetEmbeddingModel(model) ==
    IF model = "None" THEN <<"SentenceTransformer">> ELSE <<>>

\* embed_query(query)
EmbedQuery(query, model) ==
    IF IsBlank(query)
    THEN [embedding |-> "empty", calls |-> <<>>, model |-> model]
    ELSE [embedding |-> "vector",
          calls |-> GetEmbeddingModel(model) \o <<"model.encode">>,
          model |-> "loaded"]

\* a format_results that skips the hits whose metadata has no text
FormatResultsSkipping(raw) ==
    LET kept == SelectSeq(raw, LAMBDA h : "text" \in DOMAIN h.meta)
    IN  [i \in 1..Len(kept) |->
            [id |-> kept[i].id,
             similarity |-> kept[i].similarity,
             distance |-> kept[i].distance,
             text |-> kept[i].meta.text,
             source |-> Get(kept[i].meta, "source", ""),
             chunk_index |-> Get(kept[i].meta, "chunk_index", 0)]]

\* format_results(raw_results)
FormatResults(raw) ==
    [i \in 1..Len(raw) |->
        [id |-> raw[i].id,
         similarity |-> raw[i].similarity,
         distance |-> raw[i].distance,
         text |-> Get(raw[i].meta, "text", ""),
         source |-> Get(raw[i].meta, "source", ""),
         chunk_index |-> Get(raw[i].meta, "chunk_index", 0)]]

\* retrieve_context(query, top_k), the store answering raw, or failing
RetrieveContextR(query, model, raw, query_ok) ==
    LET e == EmbedQuery(query, model)
    IN  IF e.embedding = "empty"
        THEN [raised |-> FALSE, value |-> <<>>, calls |-> e.calls, model |-> e.model]
        ELSE [raised |-> ~query_ok,
              value |-> IF query_ok THEN FormatResults(raw) ELSE <<>>,
              calls |-> e.calls \o <<"initialize_endee_index", "index.query">>,
              model |-> e.model]

\* retrieve_with_filter(query, filters, top_k)
RetrieveWithFilterR(query, model, raw, query_ok) ==
    LET e == EmbedQuery(query, model)
    IN  [raised |-> ~query_ok,
         value |-> IF query_ok THEN FormatResults(raw) ELSE <<>>,
         calls |-> e.calls \o <<"initialize_endee_index", "index.query">>,
         model |-> e.model]

\* a fallback chain that tries OpenAI whether or not it is configured
CallLlmIgnoringConfig(use_openai, use_groq, e) ==
    IF e.openai_ok
    THEN [raised |-> FALSE, answer |-> "openai", calls |-> <<"call_llm", "call_openai_llm">>]
    ELSE [raised |-> ~e.local_ok,
          answer |-> IF e.local_ok THEN "local" ELSE "",
          calls |-> <<"call_llm", "call_openai_llm", "call_local_llm">>]

\* a fallback chain that asks Groq before OpenAI
CallLlmGroqFirst(use_openai, use_groq, e) ==
    LET tried_openai == IF use_openai THEN <<"call_openai_llm">> ELSE <<>>
        tried_groq == IF use_groq THEN <<"call_groq_llm">> ELSE <<>>
    IN  IF use_groq /\ e.groq_ok
        THEN [raised |-> FALSE, answer |-> "groq",
              calls |-> <<"call_llm">> \o tried_groq]
        ELSE IF use_openai /\ e.openai_ok
        THEN [raised |-> FALSE, answer |-> "openai",
              calls |-> <<"call_llm">> \o tried_groq \o tried_openai]
        ELSE [raised |-> ~e.local_ok,
              answer |-> IF e.local_ok THEN "local" ELSE "",
              calls |-> <<"call_llm">> \o tried_groq \o tried_openai
                            \o <<"call_local_llm">>]

\* a call_llm without the try around call_openai_llm
CallLlmOpenAiUncaught(use_openai, use_groq, e) ==
    LET tried_openai == IF use_openai THEN <<"call_openai_llm">> ELSE <<>>
        tried_groq == IF use_groq THEN <<"call_groq_llm">> ELSE <<>>
    IN  IF use_openai
        THEN [raised |-> ~e.openai_ok,
              answer |-> IF e.openai_ok THEN "openai" ELSE "",
              calls |-> <<"call_llm">> \o tried_openai]
        ELSE IF use_groq /\ e.groq_ok
        THEN [raised |-> FALSE, answer |-> "groq",
              calls |-> <<"call_llm">> \o tried_groq]
        ELSE [raised |-> ~e.local_ok,
              answer |-> IF e.local_ok THEN "local" ELSE "",
              calls |-> <<"call_llm">> \o tried_groq \o <<"call_local_llm">>]

\* call_llm(prompt), the providers succeeding or failing as e says
CallLlmR(use_openai, use_groq, e) ==
    LET tried_openai == IF use_openai THEN <<"call_openai_llm">> ELSE <<>>
        tried_groq == IF use_groq THEN <<"call_groq_llm">> ELSE <<>>
    IN  IF use_openai /\ e.openai_ok
        THEN [raised |-> FALSE, answer |-> "openai",
              calls |-> <<"call_llm">> \o tried_openai]
        ELSE IF use_groq /\ e.groq_ok
        THEN [raised |-> FALSE, answer |-> "groq",
              calls |-> <<"call_llm">> \o tried_openai \o tried_groq]
        ELSE [raised |-> ~e.local_ok,
              answer |-> IF e.local_ok THEN "local" ELSE "",
              calls |-> <<"call_llm">> \o tried_openai \o tried_groq
                            \o <<"call_local_llm">>]

\* the fixed answer of generate_answer when nothing was retrieved
NoInfoAnswer == "I couldn't find any relevant information to answer your question."

NoAnswer == [answer |-> "", sources |-> <<>>, num_chunks |-> 0]

\* the sources of a generate_answer response
AnswerSources(context_chunks) ==
    [i \in 1..Len(context_chunks) |->
        [source |-> context_chunks[i].source,
         chunk_index |-> context_chunks[i].chunk_index,
         similarity |-> context_chunks[i].similarity,
         excerpt |-> context_chunks[i].text]]

\* steps 2 to 4 of generate_answer: prompt, LLM call, response
AnswerFrom(r, use_openai, use_groq, e) ==
    LET llm == CallLlmR(use_openai, use_groq, e)
    IN  [raised |-> llm.raised,
         value |-> IF llm.raised THEN NoAnswer
                   ELSE [answer |-> llm.answer,
                         sources |-> AnswerSources(r.value),
                         num_chunks |-> Len(r.value)],
         calls |-> r.calls \o <<"construct_prompt">> \o llm.calls,
         model |-> r.model,
         context |-> r.value]

\* a generate_answer without the zero-chunk short circuit
GenerateAnswerNoGuard(query, model, use_openai, use_groq, e) ==
    LET r == RetrieveContextR(query, model, e.raw_results, e.query_ok)
    IN  IF r.raised
        THEN [raised |-> TRUE, value |-> NoAnswer, calls |-> r.calls,
              model |-> r.model, context |-> <<>>]
        ELSE AnswerFrom(r, use_openai, use_groq, e)

\* generate_answer(query, top_k)
GenerateAnswerR(query, model, use_openai, use_groq, e) ==
    LET r == RetrieveContextR(query, model, e.raw_results, e.query_ok)
    IN  IF r.raised
        THEN [raised |-> TRUE, value |-> NoAnswer, calls |-> r.calls,
              model |-> r.model, context |-> <<>>]
        ELSE IF r.value = <<>>
        THEN [raised |-> FALSE,
              value |-> [answer |-> NoInfoAnswer, sources |-> <<>>, num_chunks |-> 0],
              calls |-> r.calls, model |-> r.model, context |-> <<>>]
        ELSE AnswerFrom(r, use_openai, use_groq, e)

\* a threshold test that drops a result whose similarity equals the threshold
PassesStrictly(similarity, threshold) == similarity > threshold

\* the threshold test of search_semantic
Passes(similarity, threshold) == similarity >= threshold

\* the list comprehension of search_semantic
RECURSIVE FilterByThreshold(_, _)
FilterByThreshold(ctxs, threshold) ==
    IF ctxs = <<>> THEN <<>>
    ELSE LET ctx == Head(ctxs)
             rest == FilterByThreshold(Tail(ctxs), threshold)
         IN  IF Passes(ctx.similarity, threshold)
             THEN <<[text |-> ctx.text, score |-> ctx.similarity,
                     source |-> ctx.source, tags |-> <<>>]>> \o rest
             ELSE rest

\* search_semantic(query, top_k, threshold, filters)
SearchSemanticR(query, threshold, filters, model, e) ==
    LET r == IF Truthy(filters)
             THEN RetrieveWithFilterR(query, model, e.raw_results, e.query_ok)
             ELSE RetrieveContextR(query, model, e.raw_results, e.query_ok)
        results == FilterByThreshold(r.value, threshold)
    IN  [raised |-> r.raised,
         value |-> IF r.raised THEN [results |-> <<>>, total |-> 0]
                   ELSE [results |-> results, total |-> Len(results)],
         calls |-> r.calls, model |-> r.model, context |-> r.value]

\* the retrieval step shared by the handlers: filtered when filters is truthy
RetrieveFor(query, filters, model, raw, query_ok) ==
    IF Truthy(filters)
    THEN RetrieveWithFilterR(query, model, raw, query_ok)
    ELSE RetrieveContextR(query, model, raw, query_ok)

\* summarize_topic(topic, top_k, max_length, filters)
SummarizeTopicR(topic, filters, model, use_openai, use_groq, e) ==
    LET r == RetrieveFor(topic, filters, model, e.raw_results, e.query_ok)
        llm == CallLlmR(use_openai, use_groq, e)
    IN  IF r.raised
        THEN [raised |-> TRUE, value |-> [summary |-> "", chunk_count |-> 0],
              calls |-> r.calls, model |-> r.model, context |-> <<>>]
        ELSE [raised |-> llm.raised,
              value |-> IF llm.raised THEN [summary |-> "", chunk_count |-> 0]
                        ELSE [summary |-> llm.answer, chunk_count |-> Len(r.value)],
              calls |-> r.calls \o llm.calls,
              model |-> r.model,
              context |-> r.value]

\* a hit satisfies the filter condition of the model when it carries tags
SatisfiesFilter(hit) == "tags" \in DOMAIN hit.meta

\* what the store answers to the filtered query: the hits that satisfy the
\* filter, among those it answers to the unfiltered one
FilteredHits(raw) == SelectSeq(raw, SatisfiesFilter)

\* the sources of a query_rag response, built from those of generate_answer
QuerySources(sources) ==
    [i \in 1..Len(sources) |->
        [text |-> Get(sources[i], "text", ""),
         score |-> Get(sources[i], "similarity", 0),
         source |-> Get(sources[i], "source", "unknown"),
         tags |-> Get(sources[i], "tags", <<>>)]]

\* query_rag(question, top_k, include_sources=True, filters): the retrieval
\* step, whose result is not used, and then generate_answer(question, top_k)
QueryRagR(question, filters, model, use_openai, use_groq, e) ==
    LET r == RetrieveFor(question, filters, model,
                         IF Truthy(filters) THEN FilteredHits(e.raw_results)
                         ELSE e.raw_results,
                         e.query_ok)
        g == GenerateAnswerR(question, r.model, use_openai, use_groq, e)
    IN  IF r.raised
        THEN [raised |-> TRUE, value |-> [answer |-> "", sources |-> <<>>],
              calls |-> r.calls, model |-> r.model, context |-> <<>>]
        ELSE [raised |-> g.raised,
              value |-> [answer |-> g.value.answer,
                         sources |-> QuerySources(g.value.sources)],
              calls |-> r.calls \o g.calls,
              model |-> g.model,
              context |-> g.context]

\* what the outside world may answer during one operation with top_k = k
Envs(k) ==
    [raw_results : RawResults(k), query_ok : BOOLEAN,
     openai_ok : BOOLEAN, groq_ok : BOOLEAN, local_ok : BOOLEAN]

\* environments of an operation that calls no LLM
NoLlm(e) == e.openai_ok /\ e.groq_ok /\ e.local_ok
\* environments of an operation that calls no store
NoStore(e) == e.raw_results = <<>> /\ e.query_ok

RetrieveContext ==
    /\ op = NoOp
    /\ \E q \in Queries, k \in 1..MaxTopK :
       \E e \in Envs(k) :
        /\ NoLlm(e)
        /\ LET r == RetrieveContextR(q, embedding_model, e.raw_results, e.query_ok)
           IN  /\ op' = [NoOp EXCEPT !.name = "retrieve_context", !.query = q, !.top_k = k]
               /\ env' = e
               /\ calls' = r.calls
               /\ embedding_model' = r.model
               /\ context_results' = r.value
               /\ result' = [raised |-> r.raised, value |-> r.value]
        /\ UNCHANGED <<USE_OPENAI, USE_GROQ>>
        /\ UNCHANGED NotRag

RetrieveWithFilter ==
    /\ op = NoOp
    /\ \E q \in Queries, k \in 1..MaxTopK :
       \E e \in Envs(k) :
        /\ NoLlm(e)
        /\ LET r == RetrieveWithFilterR(q, embedding_model, e.raw_results, e.query_ok)
           IN  /\ op' = [NoOp EXCEPT !.name = "retrieve_with_filter", !.query = q,
                                     !.top_k = k, !.filters = "tags"]
               /\ env' = e
               /\ calls' = r.calls
               /\ embedding_model' = r.model
               /\ context_results' = r.value
               /\ result' = [raised |-> r.raised, value |-> r.value]
        /\ UNCHANGED <<USE_OPENAI, USE_GROQ>>
        /\ UNCHANGED NotRag

CallLlm ==
    /\ op = NoOp
    /\ \E e \in Envs(0) :
        /\ NoStore(e)
        /\ LET llm == CallLlmR(USE_OPENAI, USE_GROQ, e)
           IN  /\ op' = [NoOp EXCEPT !.name = "call_llm"]
               /\ env' = e
               /\ calls' = llm.calls
               /\ context_results' = <<>>
               /\ result' = [raised |-> llm.raised, value |-> llm.answer]
        /\ UNCHANGED <<USE_OPENAI, USE_GROQ, embedding_model>>
        /\ UNCHANGED NotRag

GenerateAnswer ==
    /\ op = NoOp
    /\ \E q \in Queries, k \in 1..MaxTopK :
       \E e \in Envs(k) :
        /\ LET g == GenerateAnswerR(q, embedding_model, USE_OPENAI, USE_GROQ, e)
           IN  /\ op' = [NoOp EXCEPT !.name = "generate_answer", !.query = q, !.top_k = k]
               /\ env' = e
               /\ calls' = g.calls
               /\ embedding_model' = g.model
               /\ context_results' = g.context
               /\ result' = [raised |-> g.raised, value |-> g.value]
        /\ UNCHANGED <<USE_OPENAI, USE_GROQ>>
        /\ UNCHANGED NotRag

SearchSemantic ==
    /\ op = NoOp
    /\ \E q \in Queries, k \in 1..MaxTopK, th \in 0..(MaxSim + 1), f \in FilterArgs :
       \E e \in Envs(k) :
        /\ NoLlm(e)
        /\ LET r == SearchSemanticR(q, th, f, embedding_model, e)
           IN  /\ op' = [name |-> "search_semantic", query |-> q, top_k |-> k,
                         threshold |-> th, filters |-> f]
               /\ env' = e
               /\ calls' = r.calls
               /\ embedding_model' = r.model
               /\ context_results' = r.context
               /\ result' = [raised |-> r.raised, value |-> r.value]
        /\ UNCHANGED <<USE_OPENAI, USE_GROQ>>
        /\ UNCHANGED NotRag

\* summarize_topic: context_results is what its retrieval step returned
SummarizeTopic ==
    /\ op = NoOp
    /\ \E q \in Queries, k \in 1..MaxTopK, f \in FilterArgs :
       \E e \in Envs(k) :
        /\ LET r == SummarizeTopicR(q, f, embedding_model, USE_OPENAI, USE_GROQ, e)
           IN  /\ op' = [NoOp EXCEPT !.name = "summarize_topic", !.query = q,
                                     !.top_k = k, !.filters = f]
               /\ env' = e
               /\ calls' = r.calls
               /\ embedding_model' = r.model
               /\ context_results' = r.context
               /\ result' = [raised |-> r.raised, value |-> r.value]
        /\ UNCHANGED <<USE_OPENAI, USE_GROQ>>
        /\ UNCHANGED NotRag

\* query_rag: context_results is what generate_answer put into the prompt
QueryRag ==
    /\ op = NoOp
    /\ \E q \in Queries, k \in 1..MaxTopK, f \in FilterArgs :
       \E e \in Envs(k) :
        /\ LET r == QueryRagR(q, f, embedding_model, USE_OPENAI, USE_GROQ, e)
           IN  /\ op' = [NoOp EXCEPT !.name = "query_rag", !.query = q,
                                     !.top_k = k, !.filters = f]
               /\ env' = e
               /\ calls' = r.calls
               /\ embedding_model' = r.model
               /\ context_results' = r.context
               /\ result' = [raised |-> r.raised, value |-> r.value]
        /\ UNCHANGED <<USE_OPENAI, USE_GROQ>>
        /\ UNCHANGED NotRag

\* the operation has returned to its caller; the process waits for the next
RagReturn ==
    /\ op # NoOp
    /\ op' = NoOp
    /\ env' = NoEnv
    /\ calls' = <<>>
    /\ context_results' = <<>>
    /\ result' = [raised |-> FALSE, value |-> <<>>]
    /\ UNCHANGED <<USE_OPENAI, USE_GROQ, embedding_model>>
    /\ UNCHANGED NotRag

InitRag ==
    /\ USE_OPENAI \in BOOLEAN
    /\ USE_GROQ \in BOOLEAN
    /\ embedding_model = "None"
    /\ op = NoOp
    /\ env = NoEnv
    /\ calls = <<>>
    /\ context_results = <<>>
    /\ result = [raised |-> FALSE, value |-> <<>>]
    /\ ChunkIdle
    /\ SentIdle
    /\ StoreEmpty
    /\ IndexIdle
    /\ DocIdle
    /\ EmbedIdle
    /\ RaceIdle
    /\ ProcessIdle

NextRag ==
    \/ RetrieveContext
    \/ RetrieveWithFilter
    \/ CallLlm
    \/ GenerateAnswer
    \/ SearchSemantic
    \/ SummarizeTopic
    \/ QueryRag
    \/ RagReturn

SpecRag == InitRag /\ [][NextRag]_vars

-----------------------------------------------------------------------------
(* Claims about retrieval, generation and search, checked under SpecRag *)

Blank(query) == \A i \in 1..Len(query) : IsSpace(query[i])

\* C5: retrieve_context of an empty or whitespace-only query returns the empty
\* list and calls neither the vector store nor the embedding model.
C5_BlankQueryNoStore ==
    (op.name = "retrieve_context" /\ Blank(op.query)) =>
        /\ ~result.raised
        /\ result.value = <<>>
        /\ \A i \in 1..Len(calls) : calls[i] \notin StoreCalls \cup ModelCalls

\* C5's case: a whitespace-only query while the store holds hits it would return
C5_Witness ==
    /\ op.name = "retrieve_context"
    /\ op.query = <<" ">>
    /\ env.raw_results # <<>>
    /\ env.query_ok
    /\ ~result.raised
    /\ result.value = <<>>

\* C6: when retrieval returns no chunk, generate_answer returns the fixed
\* answer with no sources and num_chunks 0, builds no prompt and calls no LLM
\* provider.
C6_NoChunksNoLlm ==
    (op.name = "generate_answer" /\ ~result.raised /\ context_results = <<>>) =>
        /\ result.value = [answer |-> NoInfoAnswer, sources |-> <<>>, num_chunks |-> 0]
        /\ \A i \in 1..Len(calls) :
               calls[i] \notin LlmCalls \cup {"call_llm", "construct_prompt"}

\* C6's case: a real query that the store answers with no hit
C6_Witness ==
    /\ op.name = "generate_answer"
    /\ op.query = <<"q">>
    /\ Count(calls, "index.query") = 1
    /\ ~result.raised
    /\ result.value.num_chunks = 0
    /\ result.value.answer = NoInfoAnswer

\* the answer of the call_llm invocation of the last operation
LlmAnswer ==
    IF op.name = "call_llm" THEN result.value
    ELSE IF op.name = "summarize_topic" THEN result.value.summary
    ELSE result.value.answer

\* C7: with OpenAI unconfigured, Groq configured and the Groq call failing, one
\* call_llm invocation calls the local model exactly once, OpenAI never and
\* Groq once, and its outcome is the local model's: its output, or its failure.
C7_FallbackToLocal ==
    (~USE_OPENAI /\ USE_GROQ /\ ~env.groq_ok /\ Count(calls, "call_llm") = 1) =>
        /\ Count(calls, "call_local_llm") = 1
        /\ Count(calls, "call_openai_llm") = 0
        /\ Count(calls, "call_groq_llm") = 1
        /\ result.raised = ~env.local_ok
        /\ env.local_ok => LlmAnswer = "local"

\* C7's case: Groq fails and the local model answers
C7_Witness ==
    /\ op.name = "call_llm"
    /\ ~USE_OPENAI /\ USE_GROQ
    /\ ~env.groq_ok /\ env.local_ok
    /\ calls = <<"call_llm", "call_groq_llm", "call_local_llm">>
    /\ result.value = "local"

\* C10: search_semantic returns exactly the retrieved results whose similarity
\* is at least the threshold, in the order of retrieval, and total is their
\* number.
C10_ThresholdFilter ==
    (op.name = "search_semantic" /\ ~result.raised) =>
        LET res == result.value.results
            ctx == context_results
            keep == {i \in 1..Len(ctx) : ctx[i].similarity >= op.threshold}
        IN  /\ \A k \in 1..Len(res) : res[k].score >= op.threshold
            /\ result.value.total = Len(res)
            /\ Len(res) = Cardinality(keep)
            /\ \A k \in 1..Len(res) :
                   \E i \in keep :
                       /\ Cardinality({j \in keep : j < i}) = k - 1
                       /\ res[k].score = ctx[i].similarity
                       /\ res[k].text = ctx[i].text
                       /\ res[k].source = ctx[i].source

\* C10's case: two hits retrieved, one below the threshold and dropped, the
\* other exactly at the threshold and kept
C10_Witness ==
    /\ op.name = "search_semantic"
    /\ ~result.raised
    /\ Len(context_results) = 2
    /\ Len(result.value.results) = 1
    /\ result.value.results[1].score = op.threshold
    /\ result.value.total = 1

\* the providers invoked by the last operation, in the order of invocation
Providers == SelectSeq(calls, LAMBDA c : c \in LlmCalls)

Invoked(c) == Count(calls, c) > 0

\* a provider of the last operation was unconfigured or failed
OpenAiUnavailable == ~USE_OPENAI \/ ~env.openai_ok
GroqUnavailable == ~USE_GROQ \/ ~env.groq_ok

\* C11: one call_llm invocation invokes the providers in the order OpenAI,
\* Groq, local, each at most once; OpenAI and Groq only if configured; a later
\* provider only if every earlier one was unconfigured or failed; and it
\* returns the answer of the first provider that succeeded.
C11_ProviderOrder ==
    (Count(calls, "call_llm") = 1) =>
        /\ \A c \in LlmCalls : Count(calls, c) <= 1
        /\ \A i, j \in 1..Len(Providers) :
               i < j =>
                   /\ Providers[j] # "call_openai_llm"
                   /\ Providers[i] # "call_local_llm"
        /\ Invoked("call_openai_llm") <=> USE_OPENAI
        /\ Invoked("call_groq_llm") <=> (USE_GROQ /\ OpenAiUnavailable)
        /\ Invoked("call_local_llm") <=> (OpenAiUnavailable /\ GroqUnavailable)
        /\ ~result.raised =>
               LlmAnswer = IF ~OpenAiUnavailable THEN "openai"
                           ELSE IF ~GroqUnavailable THEN "groq" ELSE "local"

\* C11's case: both credentials configured, OpenAI fails and Groq answers, so
\* the local model is not invoked
C11_Witness ==
    /\ op.name = "call_llm"
    /\ USE_OPENAI /\ USE_GROQ
    /\ ~env.openai_ok /\ env.groq_ok
    /\ calls = <<"call_llm", "call_openai_llm", "call_groq_llm">>
    /\ ~result.raised
    /\ result.value = "groq"

\* C12: a failure of OpenAI or Groq never leaves call_llm; call_llm, and
\* generate_answer around it, raise exactly when the local model was invoked
\* and failed, which is then the last call made, and no answer is returned.
C12_OnlyLocalFailurePropagates ==
    (Count(calls, "call_llm") = 1) =>
        /\ result.raised <=> (Invoked("call_local_llm") /\ ~env.local_ok)
        /\ result.raised =>
               /\ calls[Len(calls)] = "call_local_llm"
               /\ LlmAnswer = ""
        /\ (Invoked("call_openai_llm") /\ ~env.openai_ok
                /\ (~Invoked("call_local_llm") \/ env.local_ok)) => ~result.raised

\* C12's case: generate_answer with both remote providers configured and
\* failing, and the local model failing too
C12_Witness ==
    /\ op.name = "generate_answer"
    /\ USE_OPENAI /\ USE_GROQ
    /\ ~env.openai_ok /\ ~env.groq_ok /\ ~env.local_ok
    /\ Providers = <<"call_openai_llm", "call_groq_llm", "call_local_llm">>
    /\ result.raised
    /\ result.value = NoAnswer

\* C16: retrieve_with_filter of an empty or whitespace-only query returns the
\* empty list without calling the vector store, as retrieve_context does.
C16_FilteredBlankQueryNoStore ==
    (op.name = "retrieve_with_filter" /\ Blank(op.query)) =>
        /\ ~result.raised
        /\ result.value = <<>>
        /\ \A i \in 1..Len(calls) : calls[i] \notin StoreCalls

\* the keys of a retrieval result
ResultKeys == {"id", "similarity", "distance", "text", "source", "chunk_index"}

\* result r is hit h formatted: its fields, with '', '' and 0 for the
\* metadata fields that h lacks
FormattedFrom(r, h) ==
    /\ DOMAIN r = ResultKeys
    /\ r.id = h.id /\ r.similarity = h.similarity /\ r.distance = h.distance
    /\ r.text = (IF "text" \in DOMAIN h.meta THEN h.meta.text ELSE "")
    /\ r.source = (IF "source" \in DOMAIN h.meta THEN h.meta.source ELSE "")
    /\ r.chunk_index = (IF "chunk_index" \in DOMAIN h.meta THEN h.meta.chunk_index ELSE 0)

\* C17: a retrieval that queried the store and did not fail returns one result
\* per raw hit, in the store's order, each with the six keys and with defaults
\* for missing metadata fields.
C17_OneResultPerHit ==
    (/\ op.name \in {"retrieve_context", "retrieve_with_filter"}
     /\ Count(calls, "index.query") = 1
     /\ env.query_ok)
        => /\ ~result.raised
           /\ Len(result.value) = Len(env.raw_results)
           /\ \A i \in 1..Len(result.value) :
                  FormattedFrom(result.value[i], env.raw_results[i])

\* C17's case: two hits, the second without text, source and chunk_index
C17_Witness ==
    /\ op.name = "retrieve_context"
    /\ ~result.raised
    /\ Len(env.raw_results) = 2
    /\ Len(result.value) = 2
    /\ DOMAIN env.raw_results[2].meta \cap {"text", "source", "chunk_index"} = {}
    /\ "text" \in DOMAIN env.raw_results[1].meta
    /\ result.value[2].text = "" /\ result.value[2].chunk_index = 0

\* the raw hit that a retrieved chunk or a source was made from satisfies the
\* filter
FromFilteredHit(id) ==
    \E i \in 1..Len(env.raw_results) :
        /\ env.raw_results[i].id = id
        /\ "tags" \in DOMAIN env.raw_results[i].meta

\* C26: when query_rag is called with non-empty filters, every chunk placed in
\* the prompt satisfies the filters, and there is one source per such chunk.
C26_AnswerFromFilteredChunks ==
    (op.name = "query_rag" /\ op.filters = "tags" /\ ~result.raised) =>
        /\ \A i \in 1..Len(context_results) : FromFilteredHit(context_results[i].id)
        /\ Len(result.value.sources) = Len(context_results)

\* C29: an operation calls call_llm only after its retrieval returned at least
\* one chunk.
C29_NoLlmCallWithoutContext ==
    (op.name \in {"generate_answer", "summarize_topic", "query_rag"}
        /\ Count(calls, "call_llm") > 0)
        => context_results # <<>>

-----------------------------------------------------------------------------
(* src/store.py: get_endee_client and initialize_endee_index, called by     *)
(* NumProcs concurrent requests.  A step is one call to the store or one    *)
(* access to the client singleton.  store_indexes maps the name of each     *)
(* existing index to its id; an id of 0 is no index.                        *)

ENDEE_INDEX_NAME == "rag_documents"

IndexExists(name) == name \in DOMAIN store_indexes

\* the message of the error the store raises for a name that is taken
AlreadyExistsError == "index already exists"

\* a handler that lets every create_index error through
NeverAlreadyExists(error) == FALSE

\* the handler's test `"already exists" in str(create_error).lower()`
IsAlreadyExists(error) == error = AlreadyExistsError

\* the store's create_index: a new index under a name that is free
StoreCreate(name) ==
    /\ store_indexes' = [n \in DOMAIN store_indexes \cup {name} |->
                            IF n = name THEN indexes_created + 1 ELSE store_indexes[n]]
    /\ indexes_created' = indexes_created + 1

\* the call starts: get_endee_client tests the singleton
GetClientTest(p) ==
    /\ ixpc[p] = "idle"
    /\ ixpc' = [ixpc EXCEPT ![p] = IF endee_client = 0 THEN "make_client" ELSE "list"]
    /\ UNCHANGED <<endee_client, clients_made, existing_indexes, index, create_error>>
    /\ UNCHANGED storevars
    /\ UNCHANGED NotIndex

\* get_endee_client constructs a client and assigns the singleton
GetClientMake(p) ==
    /\ ixpc[p] = "make_client"
    /\ clients_made' = clients_made + 1
    /\ endee_client' = clients_made + 1
    /\ ixpc' = [ixpc EXCEPT ![p] = "list"]
    /\ UNCHANGED <<existing_indexes, index, create_error>>
    /\ UNCHANGED storevars
    /\ UNCHANGED NotIndex

\* client.list_indexes() and the test `index_name in existing_indexes`
ListIndexes(p) ==
    /\ ixpc[p] = "list"
    /\ existing_indexes' = [existing_indexes EXCEPT ![p] = DOMAIN store_indexes]
    /\ ixpc' = [ixpc EXCEPT ![p] =
                   IF IndexExists(ENDEE_INDEX_NAME) THEN "get" ELSE "create"]
    /\ UNCHANGED <<endee_client, clients_made, index, create_error>>
    /\ UNCHANGED storevars
    /\ UNCHANGED NotIndex

\* client.create_index(...) and its exception handler
CreateIndex(p) ==
    /\ ixpc[p] = "create"
    /\ IF ~IndexExists(ENDEE_INDEX_NAME)
       THEN /\ StoreCreate(ENDEE_INDEX_NAME)
            /\ ixpc' = [ixpc EXCEPT ![p] = "get"]
            /\ UNCHANGED create_error
       ELSE /\ create_error' = [create_error EXCEPT ![p] = AlreadyExistsError]
            /\ ixpc' = [ixpc EXCEPT ![p] =
                           IF IsAlreadyExists(AlreadyExistsError) THEN "get" ELSE "raised"]
            /\ UNCHANGED <<store_indexes, indexes_created>>
    /\ UNCHANGED <<endee_client, clients_made, existing_indexes, index, records>>
    /\ UNCHANGED NotIndex

\* client.get_index(name=index_name)
GetIndex(p) ==
    /\ ixpc[p] = "get"
    /\ IF IndexExists(ENDEE_INDEX_NAME)
       THEN /\ index' = [index EXCEPT ![p] = store_indexes[ENDEE_INDEX_NAME]]
            /\ ixpc' = [ixpc EXCEPT ![p] = "describe"]
       ELSE /\ ixpc' = [ixpc EXCEPT ![p] = "raised"]
            /\ UNCHANGED index
    /\ UNCHANGED <<endee_client, clients_made, existing_indexes, create_error>>
    /\ UNCHANGED storevars
    /\ UNCHANGED NotIndex

\* index.describe(), and the index is returned
DescribeIndex(p) ==
    /\ ixpc[p] = "describe"
    /\ ixpc' = [ixpc EXCEPT ![p] = "done"]
    /\ UNCHANGED <<endee_client, clients_made, existing_indexes, index, create_error>>
    /\ UNCHANGED storevars
    /\ UNCHANGED NotIndex

InitIndex ==
    /\ StoreEmpty
    /\ IndexIdle
    /\ DocIdle
    /\ EmbedIdle
    /\ RaceIdle
    /\ ProcessIdle
    /\ ChunkIdle
    /\ SentIdle
    /\ RagIdle

NextIndex ==
    \E p \in Procs :
        \/ GetClientTest(p)
        \/ GetClientMake(p)
        \/ ListIndexes(p)
        \/ CreateIndex(p)
        \/ GetIndex(p)
        \/ DescribeIndex(p)

SpecIndex == InitIndex /\ [][NextIndex]_vars

-----------------------------------------------------------------------------
(* Claims about initialize_endee_index, checked under SpecIndex *)

Returned(p) == ixpc[p] = "done"

\* C8: concurrent initialize_endee_index calls against a store without the
\* index never fail, create the index exactly once and, once returned, hold
\* the same index; an "already exists" failure of create_index is not raised.
C8_ConcurrentInitIdempotent ==
    /\ \A p \in Procs : ixpc[p] # "raised"
    /\ indexes_created <= 1
    /\ \A p \in Procs :
           Returned(p) =>
               /\ IndexExists(ENDEE_INDEX_NAME)
               /\ indexes_created = 1
               /\ index[p] = store_indexes[ENDEE_INDEX_NAME]
    /\ \A p, q \in Procs : (Returned(p) /\ Returned(q)) => index[p] = index[q]

\* C8's case: all calls have returned, and one of them lost the race: it saw
\* no index in list_indexes and its create_index failed with "already exists"
C8_Witness ==
    /\ \A p \in Procs : Returned(p)
    /\ \E p \in Procs :
           /\ existing_indexes[p] = {}
           /\ create_error[p] = AlreadyExistsError
    /\ \E p \in Procs :
           /\ existing_indexes[p] = {}
           /\ create_error[p] = "none"

-----------------------------------------------------------------------------
(* The requests that write to the vector store, one at a time:              *)
(* ingest_document and delete_document of src/api_handlers.py,              *)
(* store_embeddings of src/store.py and clear_all_data of src/api.py.       *)
(* Document ids (uuid4 in the code) are the fresh numbers                   *)
(* 1, 2, ...; 0 is an id that no document was given.  The records of the    *)
(* store carry the metadata fields that the handlers read or filter on.     *)

\* config.CHUNK_SIZE, scaled down from 512: one sentence "a." fills a chunk
CHUNK_SIZE == 2
\* the top_k of delete_document's fallback query, scaled down from 1000
DELETE_TOP_K == 2
\* the batch_size that store_embeddings gives batch_upsert, the most records
\* the store takes in one upsert; scaled down from 1000
BATCH_SIZE == 2
\* list_documents fetches min(limit * 10, 512) records; the cap is scaled down
\* from 512
LIST_FETCH_FACTOR == 10
LIST_FETCH_CAP == 2

\* a document of n sentences: "a. a. a."
SentencesText(n) ==
    [i \in 1..(IF n = 0 THEN 0 ELSE 3 * n - 1) |->
        IF i % 3 = 1 THEN "a" ELSE IF i % 3 = 2 THEN "." ELSE " "]

IngestTexts == {SentencesText(n) : n \in 0..MaxSentences} \cup {<<" ">>}

\* the metadata argument: none, or a dict that names document_id
CallerMetadata == {<<>>, [document_id |-> 0]}

\* {**base, **metadata}: the keys of metadata win
Merge(base, metadata) ==
    [k \in DOMAIN base \cup DOMAIN metadata |->
        IF k \in DOMAIN metadata THEN metadata[k] ELSE base[k]]

\* the vector records that ingest_document builds for document d
Vectors(d, cs, metadata) ==
    {[id |-> <<d, i - 1>>,
      vector |-> EmbedQuery(cs[i], "loaded").embedding,
      meta |-> Merge([document_id |-> d, chunk_index |-> i - 1, text |-> cs[i]],
                     metadata)] : i \in 1..Len(cs)}

\* index.upsert(vectors): a record replaces the stored record of the same id
Upsert(stored, vectors) ==
    {r \in stored : \A v \in vectors : v.id # r.id} \cup vectors

\* the records a filter {"document_id": d} matches
Matching(stored, d) ==
    {r \in stored : "document_id" \in DOMAIN r.meta /\ r.meta.document_id = d}

\* what index.query(top_k, filter) may return: top_k of the matching records,
\* or all of them when they are fewer
QueryHits(stored, d, top_k) ==
    {hits \in SUBSET Matching(stored, d) :
        Cardinality(hits) =
            IF Cardinality(Matching(stored, d)) < top_k
            THEN Cardinality(Matching(stored, d)) ELSE top_k}

\* a fallback loop that deletes nothing
FallbackDeletedNone(hits) == {}

\* the records the fallback's loop hands to delete_vector, one call each
FallbackDeleted(hits) == hits

\* initialize_endee_index("rag_documents") of a single request
InitializeIndex ==
    IF IndexExists(ENDEE_INDEX_NAME)
    THEN UNCHANGED <<store_indexes, indexes_created>>
    ELSE StoreCreate(ENDEE_INDEX_NAME)

\* ingest_document(text, metadata=metadata); the store accepts the upsert or
\* raises
IngestDocument ==
    /\ next_doc <= MaxDocs
    /\ requests < MaxRequests
    /\ \E t \in IngestTexts, metadata \in CallerMetadata, upsert_ok \in BOOLEAN :
           LET cs == ApiChunkText(t, CHUNK_SIZE)
           IN  /\ InitializeIndex
               /\ embedding_model' =
                      IF \E i \in 1..Len(cs) : ~IsBlank(cs[i])
                      THEN "loaded" ELSE embedding_model
               /\ records' = IF upsert_ok
                             THEN Upsert(records, Vectors(next_doc, cs, metadata))
                             ELSE records
               /\ st_op' = [NoDocOp EXCEPT !.name = "ingest_document",
                                           !.doc = next_doc,
                                           !.raised = ~upsert_ok,
                                           !.chunk_count = Len(cs),
                                           !.upserts = <<Len(cs)>>]
    /\ st_prev' = Summary(st_op)
    /\ requests' = requests + 1
    /\ next_doc' = next_doc + 1
    /\ UNCHANGED NotDoc

\* delete_document(d), delete_with_filter succeeding
DeleteByFilter ==
    /\ requests < MaxRequests
    /\ \E d \in 0..MaxDocs :
           /\ InitializeIndex
           /\ records' = records \ Matching(records, d)
           /\ st_op' = [NoDocOp EXCEPT !.name = "delete_document", !.doc = d,
                                       !.path = "filter"]
    /\ st_prev' = Summary(st_op)
    /\ requests' = requests + 1
    /\ UNCHANGED <<next_doc, embedding_model>>
    /\ UNCHANGED NotDoc

\* delete_document(d), delete_with_filter raising: the fallback queries the
\* records of d and deletes each one returned
DeleteByFallback ==
    /\ requests < MaxRequests
    /\ \E d \in 0..MaxDocs :
       \E hits \in QueryHits(records, d, DELETE_TOP_K) :
           /\ InitializeIndex
           /\ records' = records \ FallbackDeleted(hits)
           /\ st_op' = [NoDocOp EXCEPT !.name = "delete_document", !.doc = d,
                                       !.path = "fallback", !.hits = hits,
                                       !.deleted = FallbackDeleted(hits),
                                       !.delete_calls = Cardinality(FallbackDeleted(hits))]
    /\ st_prev' = Summary(st_op)
    /\ requests' = requests + 1
    /\ UNCHANGED <<next_doc, embedding_model>>
    /\ UNCHANGED NotDoc

\* delete_document(d), delete_with_filter raising and then the fallback raising:
\* in its query (nothing deleted) or in a delete_vector (the records before it
\* deleted)
DeleteRaises ==
    /\ requests < MaxRequests
    /\ \E d \in 0..MaxDocs, query_ok \in BOOLEAN :
       \E hits \in QueryHits(records, d, DELETE_TOP_K) :
       \E deleted \in SUBSET hits :
           /\ IF query_ok THEN deleted # hits ELSE deleted = {}
           /\ InitializeIndex
           /\ records' = records \ deleted
           /\ st_op' = [NoDocOp EXCEPT !.name = "delete_document", !.doc = d,
                                       !.raised = TRUE, !.path = "fallback",
                                       !.hits = IF query_ok THEN hits ELSE {},
                                       !.deleted = deleted,
                                       !.delete_calls =
                                           IF query_ok THEN Cardinality(deleted) + 1
                                           ELSE 0]
    /\ st_prev' = Summary(st_op)
    /\ requests' = requests + 1
    /\ UNCHANGED <<next_doc, embedding_model>>
    /\ UNCHANGED NotDoc

\* the vector records store_embeddings builds for the n embedded chunks of a
\* file; the CLI gives them no document_id
CliVectors(n) ==
    {[id |-> <<0, i - 1>>,
      vector |-> "vector",
      meta |-> [text |-> <<"a", ".">>, source |-> "s", chunk_index |-> i - 1,
                total_chunks |-> n]] : i \in 1..n}

\* the number of requests batch_upsert sends for n vectors:
\* len(range(0, n, batch_size))
NumBatches(n, batch_size) == (n + batch_size - 1) \div batch_size

\* the size of vectors[i:i + batch_size] for the k-th request, k = 1, 2, ...
BatchLen(n, batch_size, k) ==
    IF k * batch_size <= n THEN batch_size ELSE n - (k - 1) * batch_size

\* a batch_upsert that undoes the batches it sent when one fails
BatchedIdsRollback(n, batch_size, k) ==
    IF k < NumBatches(n, batch_size) THEN {}
    ELSE {<<0, i>> : i \in 0..(n - 1)}

\* the ids of the vectors of the first k requests
BatchedIds(n, batch_size, k) ==
    {<<0, i>> : i \in 0..(SetMin({n, k * batch_size}) - 1)}

\* store_embeddings(chunks) of the CLI: batch_upsert sends the vectors in
\* requests of BATCH_SIZE; the store accepts the first sent requests and
\* raises at the next, if there is one
StoreEmbeddings ==
    /\ requests < MaxRequests
    /\ \E n \in 0..MaxCliChunks :
       \E sent \in 0..NumBatches(n, BATCH_SIZE) :
           /\ InitializeIndex
           /\ records' = Upsert(records,
                                {v \in CliVectors(n) :
                                    v.id \in BatchedIds(n, BATCH_SIZE, sent)})
           /\ st_op' = [NoDocOp EXCEPT
                  !.name = "store_embeddings",
                  !.raised = sent < NumBatches(n, BATCH_SIZE),
                  !.chunk_count = n,
                  !.upserts = [k \in 1..SetMin({sent + 1, NumBatches(n, BATCH_SIZE)})
                                  |-> BatchLen(n, BATCH_SIZE, k)]]
    /\ st_prev' = Summary(st_op)
    /\ requests' = requests + 1
    /\ UNCHANGED <<next_doc, embedding_model>>
    /\ UNCHANGED NotDoc

\* what the unfiltered index.query(top_k) of list_documents may return: top_k
\* of the stored records, or all of them when they are fewer
FetchHits(stored, top_k) ==
    {hits \in SUBSET stored :
        Cardinality(hits) = SetMin({Cardinality(stored), top_k})}

\* the document ids that list_documents finds in the fetched records
ListedIds(hits) ==
    {r.meta.document_id : r \in {h \in hits : "document_id" \in DOMAIN h.meta}}

\* list_documents(limit): the fetched records are aggregated by document_id
\* and at most limit documents are returned
ListDocuments ==
    /\ requests < MaxRequests
    /\ \E limit \in 1..MaxLimit, query_ok \in BOOLEAN :
       \E hits \in FetchHits(records, SetMin({limit * LIST_FETCH_FACTOR, LIST_FETCH_CAP})) :
       \E listed \in SUBSET ListedIds(hits) :
           /\ Cardinality(listed) = SetMin({limit, Cardinality(ListedIds(hits))})
           /\ InitializeIndex
           /\ st_op' =
                  IF query_ok
                  THEN [NoDocOp EXCEPT
                           !.name = "list_documents",
                           !.limit = limit,
                           !.documents =
                               {[document_id |-> d,
                                 chunk_count |-> Cardinality(Matching(hits, d))] :
                                    d \in listed},
                           !.total = Cardinality(listed)]
                  ELSE [NoDocOp EXCEPT !.name = "list_documents", !.limit = limit,
                                       !.raised = TRUE]
    /\ st_prev' = Summary(st_op)
    /\ requests' = requests + 1
    /\ UNCHANGED <<next_doc, embedding_model, records>>
    /\ UNCHANGED NotDoc

\* a clear-all that recreates the index without deleting it first
ClearAllWithoutDelete ==
    /\ requests < MaxRequests
    /\ InitializeIndex
    /\ st_op' = [NoDocOp EXCEPT !.name = "clear_all"]
    /\ st_prev' = Summary(st_op)
    /\ requests' = requests + 1
    /\ UNCHANGED <<next_doc, embedding_model, records>>
    /\ UNCHANGED NotDoc

\* clear_all_data of src/api.py: delete_index() and then
\* initialize_endee_index().  The store raises for delete_index of an index
\* that does not exist, and may raise in either call; deleting an index
\* removes its records.
ClearAll ==
    /\ requests < MaxRequests
    /\ \E delete_ok, create_ok \in BOOLEAN :
           IF ~(IndexExists(ENDEE_INDEX_NAME) /\ delete_ok)
           THEN /\ st_op' = [NoDocOp EXCEPT !.name = "clear_all", !.raised = TRUE]
                /\ UNCHANGED storevars
           ELSE /\ records' = {}
                /\ st_op' = [NoDocOp EXCEPT !.name = "clear_all", !.raised = ~create_ok]
                /\ IF create_ok
                   THEN StoreCreate(ENDEE_INDEX_NAME)
                   ELSE /\ store_indexes' =
                               [n \in DOMAIN store_indexes \ {ENDEE_INDEX_NAME} |->
                                   store_indexes[n]]
                        /\ UNCHANGED indexes_created
    /\ st_prev' = Summary(st_op)
    /\ requests' = requests + 1
    /\ UNCHANGED <<next_doc, embedding_model>>
    /\ UNCHANGED NotDoc

InitDoc ==
    /\ StoreEmpty
    /\ DocIdle
    /\ EmbedIdle
    /\ RaceIdle
    /\ ProcessIdle
    /\ IndexIdle
    /\ ChunkIdle
    /\ SentIdle
    /\ RagIdle

NextDoc ==
    \/ IngestDocument
    \/ DeleteByFilter
    \/ DeleteByFallback
    \/ DeleteRaises
    \/ StoreEmbeddings
    \/ ClearAll
    \/ ListDocuments

SpecDoc == InitDoc /\ [][NextDoc]_vars

-----------------------------------------------------------------------------
(* Claims about the document handlers, checked under SpecDoc *)

\* C9: once ingest_document has returned d and delete_document(d) has then
\* returned, by either deletion path, no record of d is left in the index.
C9_IngestDeleteRoundTrip ==
    (/\ st_prev.name = "ingest_document" /\ ~st_prev.raised
     /\ st_op.name = "delete_document" /\ ~st_op.raised
     /\ st_op.doc = st_prev.doc)
        => Matching(records, st_op.doc) = {}

\* C15: every upsert request sent by store_embeddings or by ingest_document
\* carries at most BATCH_SIZE records.
C15_UpsertAtMostBatchSize ==
    \A k \in 1..Len(st_op.upserts) : st_op.upserts[k] <= BATCH_SIZE

\* the sum of a sequence of numbers
RECURSIVE SeqSum(_)
SeqSum(q) == IF q = <<>> THEN 0 ELSE Head(q) + SeqSum(Tail(q))

\* the ids of the CLI records in the store
StoredCliIds == {r.id : r \in {x \in records : x.id[1] = 0}}

\* C25: batch_upsert sends consecutive batches in input order, every record in
\* one batch; when the upsert of batch k raises, the exception reaches the
\* caller, no later batch is sent, and the records of the batches before k
\* stay stored.
C25_BatchesNoRollback ==
    (st_op.name = "store_embeddings") =>
        LET sizes == st_op.upserts
            n == st_op.chunk_count
            before == IF st_op.raised THEN SubSeq(sizes, 1, Len(sizes) - 1) ELSE sizes
        IN  /\ \A k \in 1..Len(sizes) : sizes[k] >= 1
            /\ \A k \in 1..(Len(sizes) - 1) : sizes[k] = BATCH_SIZE
            /\ SeqSum(sizes) <= n
            /\ ~st_op.raised => SeqSum(sizes) = n
            /\ st_op.raised => Len(sizes) >= 1
            /\ \A i \in 0..(SeqSum(before) - 1) : <<0, i>> \in StoredCliIds
            /\ st_prev.name = "none" => Cardinality(StoredCliIds) = SeqSum(before)

\* C25's case: three records, the first batch of two stored and the second
\* batch failing
C25_Witness ==
    /\ st_op.name = "store_embeddings"
    /\ st_op.raised
    /\ st_op.chunk_count = 3
    /\ st_op.upserts = <<BATCH_SIZE, 1>>
    /\ StoredCliIds = {<<0, 0>>, <<0, 1>>}

\* C18: delete_document takes the fallback only after delete_with_filter
\* raised; the fallback then returns without error once its query and its
\* deletions succeed, having called delete_vector once for each record the
\* query returned, all of them records of d; after a filter delete that
\* succeeded, delete_vector is not called.
C18_FallbackDeletesEachHit ==
    (st_op.name = "delete_document" /\ ~st_op.raised) =>
        /\ st_op.path = "fallback" =>
               /\ st_op.deleted = st_op.hits
               /\ st_op.delete_calls = Cardinality(st_op.hits)
               /\ \A h \in st_op.hits : h.meta.document_id = st_op.doc
               /\ st_op.hits \cap records = {}
        /\ st_op.path = "filter" =>
               /\ st_op.delete_calls = 0
               /\ st_op.deleted = {}

\* C18's case: the filter delete raised and the fallback deleted the two
\* records its query returned
C18_Witness ==
    /\ st_op.name = "delete_document"
    /\ ~st_op.raised
    /\ st_op.path = "fallback"
    /\ Cardinality(st_op.hits) = 2
    /\ st_op.delete_calls = 2

\* C19: after a clear-all that returned success, the index rag_documents
\* exists and holds no record, so no document ingested before is listed or
\* returned by a query.
C19_ClearAllEmptiesIndex ==
    (st_op.name = "clear_all" /\ ~st_op.raised) =>
        /\ IndexExists(ENDEE_INDEX_NAME)
        /\ records = {}

\* C19's case: a clear-all that succeeds right after a document of several
\* chunks was ingested
C19_Witness ==
    /\ st_op.name = "clear_all"
    /\ ~st_op.raised
    /\ st_prev.name = "ingest_document"
    /\ ~st_prev.raised
    /\ st_prev.chunk_count > 1
    /\ records = {}

\* C21: every vector record that ingest_document upserts has a non-empty text
\* and a vector of the configured dimension, whatever the input text.
C21_NoEmptyRecord ==
    \A r \in records :
        r.id[1] # 0 => (r.meta.text # <<>> /\ r.vector = "vector")

\* C27: every record written by ingest_document carries the document_id that
\* was returned to the caller and the chunk's position, whatever metadata the
\* caller passed.
C27_ReservedFieldsKept ==
    \A r \in records :
        r.id[1] # 0 =>
            /\ r.meta.document_id = r.id[1]
            /\ r.meta.chunk_index = r.id[2]

\* C30: list_documents(limit) returns total = len(documents) <= limit, and the
\* chunk_count of each listed document is the number of records stored with
\* its document_id.
C30_ListCountsAllChunks ==
    (st_op.name = "list_documents" /\ ~st_op.raised) =>
        /\ st_op.total = Cardinality(st_op.documents)
        /\ st_op.total <= st_op.limit
        /\ \A d \in st_op.documents :
               d.chunk_count =
                   Cardinality({r \in records :
                                   /\ "document_id" \in DOMAIN r.meta
                                   /\ r.meta.document_id = d.document_id})

-----------------------------------------------------------------------------
(* src/embed.py: embed_texts, embed_query and embed_chunks, called one      *)
(* after the other in one process.  The model library may fail to construct *)
(* the model or to encode.  models_made counts the constructions that       *)
(* succeeded in the calls followed here.                                    *)

EmbedEnvs == [construct_ok : BOOLEAN, encode_ok : BOOLEAN]

\* the lists of texts handed to embed_texts
TextLists == UNION {[1..n -> Queries] : n \in 0..MaxTexts}

\* the lists of chunk dicts handed to embed_chunks
ChunkLists == {[i \in DOMAIN ts |-> [text |-> ts[i]]] : ts \in TextLists}

\* get_embedding_model() followed by model.encode(...), the library answering
\* as e says; value is what encode returns when it succeeds
Encode(model, value, e) ==
    LET g == GetEmbeddingModel(model)
    IN  IF g # <<>> /\ ~e.construct_ok
        THEN [raised |-> TRUE, value |-> <<>>, calls |-> g, model |-> model, made |-> 0]
        ELSE [raised |-> ~e.encode_ok,
              value |-> IF e.encode_ok THEN value ELSE <<>>,
              calls |-> g \o <<"model.encode">>,
              model |-> "loaded",
              made |-> Len(g)]

\* an embed_texts without the test for an empty list
EmbedTextsNoGuard(texts, model, e) ==
    Encode(model, [i \in 1..Len(texts) |-> "vector"], e)

\* embed_texts(texts)
EmbedTextsR(texts, model, e) ==
    IF texts = <<>>
    THEN [raised |-> FALSE, value |-> <<>>, calls |-> <<>>, model |-> model, made |-> 0]
    ELSE Encode(model, [i \in 1..Len(texts) |-> "vector"], e)

\* embed_query(query), the library answering as e says
EmbedQueryR(query, model, e) ==
    LET q == EmbedQuery(query, model)
    IN  IF q.calls = <<>>
        THEN [raised |-> FALSE, value |-> <<>>, calls |-> <<>>, model |-> q.model, made |-> 0]
        ELSE Encode(model, q.embedding, e)

\* embed_chunks(chunks)
EmbedChunksR(cs, model, e) ==
    LET r == EmbedTextsR([i \in 1..Len(cs) |-> cs[i].text], model, e)
    IN  [r EXCEPT !.value =
            IF r.raised THEN <<>>
            ELSE [i \in 1..Len(cs) |-> [text |-> cs[i].text, embedding |-> r.value[i]]]]

\* the state after a call of src/embed.py with outcome r
EmbedDone(name, texts, query, e, r) ==
    /\ emb_op' = [name |-> name, texts |-> texts, query |-> query,
                  raised |-> r.raised, value |-> r.value,
                  model_before |-> embedding_model, made_before |-> models_made]
    /\ emb_env' = e
    /\ emb_calls' = r.calls
    /\ embedding_model' = r.model
    /\ models_made' = models_made + r.made
    /\ UNCHANGED NotEmbed

EmbedTexts ==
    \E texts \in TextLists, e \in EmbedEnvs :
        EmbedDone("embed_texts", texts, <<>>, e, EmbedTextsR(texts, embedding_model, e))

EmbedQueryCall ==
    \E query \in Queries, e \in EmbedEnvs :
        EmbedDone("embed_query", <<>>, query, e, EmbedQueryR(query, embedding_model, e))

EmbedChunks ==
    \E cs \in ChunkLists, e \in EmbedEnvs :
        EmbedDone("embed_chunks", [i \in 1..Len(cs) |-> cs[i].text], <<>>, e,
                  EmbedChunksR(cs, embedding_model, e))

InitEmbed ==
    /\ EmbedIdle
    /\ RaceIdle
    /\ ProcessIdle
    /\ RagIdle
    /\ ChunkIdle
    /\ SentIdle
    /\ StoreEmpty
    /\ IndexIdle
    /\ DocIdle

NextEmbed ==
    \/ EmbedTexts
    \/ EmbedQueryCall
    \/ EmbedChunks

SpecEmbed == InitEmbed /\ [][NextEmbed]_vars

-----------------------------------------------------------------------------
(* Claims about src/embed.py, checked under SpecEmbed *)

\* C13: embed_texts of the empty list and embed_query of an empty or
\* whitespace-only string return an empty result without constructing or
\* invoking the embedding model, and leave the model singleton as it was.
C13_EmptyInputNoModel ==
    (\/ emb_op.name = "embed_texts" /\ emb_op.texts = <<>>
     \/ emb_op.name = "embed_query" /\ Blank(emb_op.query))
        => /\ ~emb_op.raised
           /\ emb_op.value = <<>>
           /\ emb_calls = <<>>
           /\ embedding_model = emb_op.model_before
           /\ models_made = emb_op.made_before

\* C13's case: embed_texts([]) while the model is still unset and the library
\* would fail to construct it
C13_Witness ==
    /\ emb_op.name = "embed_texts"
    /\ emb_op.texts = <<>>
    /\ ~emb_env.construct_ok
    /\ emb_op.model_before = "None"
    /\ embedding_model = "None"
    /\ ~emb_op.raised

\* C14: the embedding model is constructed at most once: a call constructs it
\* only while the singleton is unset, and once a construction has succeeded
\* the singleton is set and every later call uses it without constructing.
C14_ModelConstructedOnce ==
    /\ models_made <= 1
    /\ (embedding_model = "loaded") <=> (models_made = 1)
    /\ emb_op.model_before = "loaded" => Count(emb_calls, "SentenceTransformer") = 0
    /\ (emb_op.model_before = "None" /\ emb_calls # <<>>) =>
           emb_calls[1] = "SentenceTransformer"

\* C14's case: a call with non-empty input made after the model was
\* constructed, which encodes without constructing
C14_Witness ==
    /\ emb_op.name = "embed_chunks"
    /\ emb_op.texts # <<>>
    /\ emb_op.model_before = "loaded"
    /\ emb_op.made_before = 1
    /\ emb_calls = <<"model.encode">>
    /\ ~emb_op.raised

-----------------------------------------------------------------------------
(* The two singletons under concurrent first calls: get_embedding_model of  *)
(* src/embed.py and get_endee_client of src/store.py, each called by        *)
(* NumProcs threads of one process.  Neither function takes a lock; a step  *)
(* is the test of the global, the construction with its assignment, or the  *)
(* read of the global for the return.                                       *)

\* an assignment that keeps a handle that is already set
AssignIfUnset(current, new) == IF current = 0 THEN new ELSE current

\* `_embedding_model = SentenceTransformer(...)`: the global after the
\* assignment, whatever it held
AssignHandle(current, new) == new

\* `if _embedding_model is None`
GetModelTest(p) ==
    /\ empc[p] = "idle"
    /\ empc' = [empc EXCEPT ![p] = IF model_obj = 0 THEN "make" ELSE "return"]
    /\ UNCHANGED <<embedding_model, models_made, model_obj, em_returned>>
    /\ UNCHANGED NotRace

\* the model is constructed and assigned to the global
GetModelMake(p) ==
    /\ empc[p] = "make"
    /\ models_made' = models_made + 1
    /\ model_obj' = AssignHandle(model_obj, models_made + 1)
    /\ embedding_model' = "loaded"
    /\ empc' = [empc EXCEPT ![p] = "return"]
    /\ UNCHANGED em_returned
    /\ UNCHANGED NotRace

\* `return _embedding_model`
GetModelReturn(p) ==
    /\ empc[p] = "return"
    /\ em_returned' = [em_returned EXCEPT ![p] = model_obj]
    /\ empc' = [empc EXCEPT ![p] = "done"]
    /\ UNCHANGED <<embedding_model, models_made, model_obj>>
    /\ UNCHANGED NotRace

InitRace ==
    /\ RaceIdle
    /\ EmbedIdle
    /\ RagIdle
    /\ IndexIdle
    /\ StoreEmpty
    /\ DocIdle
    /\ ProcessIdle
    /\ ChunkIdle
    /\ SentIdle

NextRace ==
    \E p \in Procs :
        \/ GetModelTest(p)
        \/ GetModelMake(p)
        \/ GetModelReturn(p)
        \/ GetClientTest(p)
        \/ GetClientMake(p)

SpecRace == InitRace /\ [][NextRace]_vars

-----------------------------------------------------------------------------
(* Claims about the singletons, checked under SpecRace *)

\* C24: concurrent first calls may each construct a handle, at most one per
\* call; each singleton holds the handle that was assigned last, and every
\* call returns a handle that was constructed.
C24_LastAssignedHandleKept ==
    /\ model_obj = models_made
    /\ endee_client = clients_made
    /\ models_made <= NumProcs
    /\ clients_made <= NumProcs
    /\ \A p \in Procs : empc[p] = "done" => em_returned[p] \in 1..models_made

\* C24's case: two calls of each function saw the handle unset and both
\* constructed one; every call has returned, with the second model
C24_Witness ==
    /\ models_made = 2
    /\ clients_made = 2
    /\ \A p \in Procs : empc[p] = "done" /\ em_returned[p] = 2
    /\ \A p \in Procs : ixpc[p] = "list"
    /\ endee_client = 2

-----------------------------------------------------------------------------
(* src/ingest.py: load_documents, create_chunk_id, process_documents *)

\* config.CHUNK_OVERLAP, scaled down from 50 with CHUNK_SIZE
CHUNK_OVERLAP == 1

\* config.SUPPORTED_EXTENSIONS, in the order load_documents walks them
SUPPORTED_EXTENSIONS == <<".txt", ".md", ".pdf">>

\* the files that may lie below the data directory: the subdirectory, the
\* stem and the extension of each
Paths ==
    {[dir |-> "a", stem |-> "doc", ext |-> ".txt"],
     [dir |-> "b", stem |-> "doc", ext |-> ".txt"],
     [dir |-> "a", stem |-> "notes", ext |-> ".md"],
     [dir |-> "a", stem |-> "data", ext |-> ".csv"]}

\* the contents a file may have: runs of letters, or a single blank
Contents == {[i \in 1..k |-> "a"] : k \in 0..MaxContentLen} \cup {<<" ">>}

\* file_path.name
FileName(p) == <<p.stem, p.ext>>

\* chunk_text(text, chunk_size, overlap) from the window at s on, as the while
\* loop computes it
RECURSIVE ChunkTextFrom(_, _, _, _, _, _)
ChunkTextFrom(t, size, ov, s, cs, fuel) ==
    IF s >= Len(t) \/ fuel = 0
    THEN cs
    ELSE LET end == WindowEnd(t, s, size)
             cs2 == AppendChunk(cs, t, s, end)
         IN  ChunkTextFrom(t, size, ov, NextStart(end, ov, cs2), cs2, fuel - 1)

\* chunk_text(text, chunk_size, overlap)
ChunkText(t, size, ov) ==
    IF t = <<>> THEN <<>> ELSE ChunkTextFrom(t, size, ov, 0, <<>>, MaxIter)

\* the position of an extension in SUPPORTED_EXTENSIONS, 0 when it is not there
ExtRank(ext) ==
    LET at == {k \in 1..Len(SUPPORTED_EXTENSIONS) : SUPPORTED_EXTENSIONS[k] = ext}
    IN  IF at = {} THEN 0 ELSE SetMin(at)

\* the files load_documents keeps: a supported extension and a content that
\* is not blank
Loadable(files) ==
    {p \in DOMAIN files : ExtRank(p.ext) # 0 /\ Strip(files[p]) # <<>>}

\* the document lists load_documents may return: extension by extension, the
\* files of one extension in the order rglob yields them
LoadDocuments(files) ==
    LET keep == Loadable(files)
        n == Cardinality(keep)
    IN  {[i \in 1..n |-> [path |-> ps[i], name |-> FileName(ps[i]),
                          content |-> files[ps[i]]]] :
            ps \in {q \in [1..n -> keep] :
                       /\ \A i, j \in 1..n : i # j => q[i] # q[j]
                       /\ \A i, j \in 1..n :
                              i < j => ExtRank(q[i].ext) <= ExtRank(q[j].ext)}}

\* hashlib.md5(content).hexdigest()[:8]: a value fixed by the hashed string
HashSuffix(content) == <<"md5", content>>

\* create_chunk_id(doc_name, chunk_index)
CreateChunkId(doc_name, chunk_index) ==
    <<doc_name, chunk_index, HashSuffix(<<doc_name, chunk_index>>)>>

\* the chunk objects process_documents builds for one document
DocChunks(doc) ==
    LET cs == ChunkText(doc.content, CHUNK_SIZE, CHUNK_OVERLAP)
    IN  [i \in 1..Len(cs) |->
            [id |-> CreateChunkId(doc.name, i - 1),
             text |-> cs[i],
             metadata |-> [source |-> doc.name,
                           chunk_index |-> i - 1,
                           total_chunks |-> Len(cs),
                           source_path |-> doc.path]]]

\* all_chunks after the for loop over the documents
RECURSIVE AllChunks(_)
AllChunks(docs) ==
    IF docs = <<>> THEN <<>>
    ELSE DocChunks(Head(docs)) \o AllChunks(Tail(docs))

\* process_documents(directory): load, chunk, and return the chunk objects
ProcessDocuments ==
    /\ pdpc = "call"
    /\ \E docs \in LoadDocuments(pd_files) :
           all_chunks' = AllChunks(docs)
    /\ pdpc' = "done"
    /\ UNCHANGED pd_files
    /\ UNCHANGED NotProcess

InitProcess ==
    /\ \E present \in SUBSET Paths : pd_files \in [present -> Contents]
    /\ all_chunks = <<>>
    /\ pdpc = "call"
    /\ ChunkIdle /\ SentIdle /\ RagIdle /\ StoreEmpty /\ IndexIdle
    /\ DocIdle /\ EmbedIdle /\ RaceIdle

NextProcess == ProcessDocuments

SpecProcess == InitProcess /\ [][NextProcess]_vars

\* C28: within one process_documents run all chunk ids are pairwise distinct,
\* also for two files of the same name in different subdirectories.
C28_ChunkIdsDistinct ==
    pdpc = "done" =>
        \A i, j \in 1..Len(all_chunks) :
            i # j => all_chunks[i].id # all_chunks[j].id


=============================================================================
